---- MODULE Spec2Model ----
(***************************************************************************)
(* htmlify.py: a set of files is rendered into one self-contained HTML     *)
(* document.  The extension of each file selects a Handler through the     *)
(* autoregistry Registry; the handler supplies an optional header and an   *)
(* HTML fragment that embeds the file's bytes in base64.                   *)
(*                                                                         *)
(* A Python str is modelled as a sequence of tokens.  A token is either a  *)
(* single character (extensions, base64 text) or a literal piece of the    *)
(* source text (markup, a file's stem, a timestamp); concatenation and     *)
(* f-string interpolation are \o.                                          *)
(***************************************************************************)
EXTENDS Integers, Sequences, FiniteSets, TLC

\* ------------------------------------------------------------------ bounds

\* Longest input file list drawn from Disk.
MaxFiles == 3

\* Longest file content, in bytes, of the files in ByteFiles.
MaxBytes == 3

\* ------------------------------------------------------------- characters

UpperChars == <<"A","B","C","D","E","F","G","H","I","J","K","L","M",
                "N","O","P","Q","R","S","T","U","V","W","X","Y","Z">>
LowerChars == <<"a","b","c","d","e","f","g","h","i","j","k","l","m",
                "n","o","p","q","r","s","t","u","v","w","x","y","z">>

\* str.lower(), on one character
LowerChar(c) ==
    IF \E k \in 1..Len(UpperChars) : UpperChars[k] = c
    THEN LowerChars[CHOOSE k \in 1..Len(UpperChars) : UpperChars[k] = c]
    ELSE c

\* str.lower()
Lower(s) == [k \in 1..Len(s) |-> LowerChar(s[k])]

IsNotDot(c) == c # "."

\* str.replace(".", "")
RemoveDots(s) == SelectSeq(s, IsNotDot)

\* ExtensionOf without the call of lower()
ExtensionOfNoLower(path) == RemoveDots(path.suffix)

\* path.suffix.replace(".", "").lower()
ExtensionOf(path) == Lower(RemoveDots(path.suffix))

\* str(path): the stem followed by the suffix
PathStr(path) == <<path.stem>> \o path.suffix

\* ---------------------------------------------------------------- registry

\* Handler(Registry, suffix="Handler") keeps one registry for its subclasses.
\* A subclass is registered under its own name, suffix stripped and case
\* folded (the name main reads back as handler.__registry__.name), and under
\* each of its aliases.  main passes keys that are already lower case.

\* class names of the Handler subclasses, and the aliases each declares
ImageClass == <<"I","m","a","g","e","H","a","n","d","l","e","r">>
GLBClass   == <<"G","L","B","H","a","n","d","l","e","r">>
HandlerSuffix == <<"H","a","n","d","l","e","r">>

ImageAliases == {<<"j","p","g">>, <<"j","p","e","g">>, <<"p","n","g">>, <<"g","i","f">>}
GLBAliases   == {<<"g","l","b">>, <<"g","l","t","f">>}

\* Registry(suffix="Handler"): the suffix is stripped from the class name
StripSuffix(name, suffix) ==
    IF /\ Len(name) >= Len(suffix)
       /\ SubSeq(name, Len(name) - Len(suffix) + 1, Len(name)) = suffix
    THEN SubSeq(name, 1, Len(name) - Len(suffix))
    ELSE name

\* the key a class is registered under: suffix stripped, case folded
RegisteredName(class) == Lower(StripSuffix(class, HandlerSuffix))

Classes == {ImageClass, GLBClass}

AliasesOf(class) == IF class = ImageClass THEN ImageAliases ELSE GLBAliases

\* the keys of Handler's registry that resolve to class: its name and its aliases
KeysOf(class) == {RegisteredName(class)} \cup AliasesOf(class)

\* extension in Handler
InRegistry(ext) == \E c \in Classes : ext \in KeysOf(c)

\* Handler[extension]
Lookup(ext) == CHOOSE c \in Classes : ext \in KeysOf(c)

\* ---------------------------------------------------------------- handlers

\* GLBHandler.header(): the script import and the style block
GLBHeaderText == <<"<script type='module' src='model-viewer.min.js'></script>",
                   "\n",
                   "<style>model-viewer { width: 512px; height: 512px; }</style>">>

\* Handler.header() / GLBHandler.header()
Header(class) == IF class = GLBClass THEN GLBHeaderText ELSE <<>>

B64Alphabet ==
    <<"A","B","C","D","E","F","G","H","I","J","K","L","M","N","O","P",
      "Q","R","S","T","U","V","W","X","Y","Z","a","b","c","d","e","f",
      "g","h","i","j","k","l","m","n","o","p","q","r","s","t","u","v",
      "w","x","y","z","0","1","2","3","4","5","6","7","8","9","+","/">>

B64Char(n) == B64Alphabet[n + 1]

RECURSIVE B64EncodeWholeGroups(_)
\* B64Encode that drops a final group of fewer than three bytes
B64EncodeWholeGroups(bs) ==
    IF Len(bs) < 3 THEN <<>>
    ELSE <<B64Char(bs[1] \div 4),
           B64Char((bs[1] % 4) * 16 + bs[2] \div 16),
           B64Char((bs[2] % 16) * 4 + bs[3] \div 64),
           B64Char(bs[3] % 64)>> \o B64EncodeWholeGroups(SubSeq(bs, 4, Len(bs)))

RECURSIVE B64Encode(_)
\* base64.b64encode(bytes).decode()
B64Encode(bs) ==
    IF Len(bs) = 0 THEN <<>>
    ELSE IF Len(bs) = 1 THEN
        <<B64Char(bs[1] \div 4), B64Char((bs[1] % 4) * 16), "=", "=">>
    ELSE IF Len(bs) = 2 THEN
        <<B64Char(bs[1] \div 4),
          B64Char((bs[1] % 4) * 16 + bs[2] \div 16),
          B64Char((bs[2] % 16) * 4), "=">>
    ELSE
        <<B64Char(bs[1] \div 4),
          B64Char((bs[1] % 4) * 16 + bs[2] \div 16),
          B64Char((bs[2] % 16) * 4 + bs[3] \div 64),
          B64Char(bs[3] % 64)>> \o B64Encode(SubSeq(bs, 4, Len(bs)))

\* ImageHandler.htmlify, for a file that can be read
ImageHtmlify(path) ==
    <<"<img src = 'data:image/">> \o ExtensionOf(path) \o <<";base64,">>
        \o B64Encode(path.bytes) \o <<"'/>">>

\* GLBFormat comparing the extension with the suffix, dot included
GLBFormatDotted(ext) == IF ext = <<".","g","l","b">> THEN "gltf-binary" ELSE "gltf-text"

\* the format GLBHandler.htmlify derives from the extension
GLBFormat(ext) == IF ext = <<"g","l","b">> THEN "gltf-binary" ELSE "gltf-text"

\* GLBHandler.htmlify, for a file that can be read
GLBHtmlify(path) ==
    <<"\n", "<model-viewer camera-controls src='data:model/",
      GLBFormat(ExtensionOf(path)), ";base64,">>
        \o B64Encode(path.bytes) \o <<"'>", "\n", "</model-viewer>">>

\* handler.htmlify(f)
Htmlify(class, path) ==
    IF class = ImageClass THEN ImageHtmlify(path) ELSE GLBHtmlify(path)

\* ------------------------------------------------------------------ inputs

File(stem, suffix, readable, bytes) ==
    [stem |-> stem, suffix |-> suffix, readable |-> readable, bytes |-> bytes]

\* the loop variable f before the first iteration
NoPath == File("", <<>>, FALSE, <<>>)

\* files the command line may name; a file that is not readable is missing
Disk ==
    { File("a", <<".","p","n","g">>, TRUE, <<137, 80>>),
      File("b", <<".","g","l","b">>, TRUE, <<103>>),
      File("c", <<".","x","y","z">>, TRUE, <<1, 2, 3>>),
      File("d", <<".","P","N","G">>, FALSE, <<>>),
      File("e", <<".","g","l","t","f">>, TRUE, <<>>),
      File("h", <<".","J","p","e","g">>, TRUE, <<255, 216, 255, 224>>),
      File("m", <<>>, FALSE, <<>>) }

\* the upper-case form of a lower-case letter
UpperChar(c) ==
    IF \E k \in 1..Len(LowerChars) : LowerChars[k] = c
    THEN UpperChars[CHOOSE k \in 1..Len(LowerChars) : LowerChars[k] = c]
    ELSE c

RECURSIVE Spellings(_)
\* the spellings of a lower-case word in upper, lower and mixed case
Spellings(w) ==
    IF w = <<>> THEN {<<>>}
    ELSE { <<c>> \o rest : c \in {w[1], UpperChar(w[1])},
                           rest \in Spellings(Tail(w)) }

OtherWords == { <<>>, <<"x","y","z">>, <<"t","x","t">>, <<"i","m","a","g","e">>,
                <<"h","a","n","d","l","e","r">>, <<"p","n">>, <<"g","l">>,
                <<"j","p","e">>, <<"p","n","g","g">>, <<"m","o","d","e","l">> }

Dotted(w) == IF w = <<>> THEN <<>> ELSE <<".">> \o w

\* one file per spelling of every registered alias and of some other words
CaseFiles ==
    { File("s", Dotted(s), r, <<255>>) :
        s \in UNION { Spellings(w) : w \in ImageAliases \cup GLBAliases \cup OtherWords },
        r \in BOOLEAN }

ByteSamples == {0, 77, 128, 255}

RECURSIVE SeqsUpTo(_, _)
SeqsUpTo(S, n) ==
    IF n = 0 THEN {<<>>}
    ELSE LET shorter == SeqsUpTo(S, n - 1)
         IN  shorter \cup { Append(s, x) : s \in shorter, x \in S }

\* one image and one model file per content
ByteFiles ==
    { File("z", sfx, TRUE, bs) :
        sfx \in {<<".","g","i","f">>, <<".","G","l","b">>, <<".","g","l","t","f">>},
        bs \in SeqsUpTo(ByteSamples, MaxBytes) }

\* datetime.datetime.now(), as the text written
Timestamps == {"2024-01-01 00:00:00.000000", "2024-06-30 12:34:56.789012"}

\* ------------------------------------------------------------------- state

VARIABLES
    files,       \* main's argument: the input file list
    i,           \* the number of files the for loop has taken
    f,           \* the loop variable
    extension,   \* main's local
    handler,     \* main's local: a class
    headers,     \* main's dict, in insertion order: <<key, value>> pairs
    body,        \* main's list of strings
    stdout,      \* the lines printed
    outOpened,   \* whether outfile has been opened for writing
    out,         \* the strings written to outfile, one per write call
    hi,          \* position in headers.values() while writing
    li,          \* position in body while writing
    pc           \* where main is

vars == <<files, i, f, extension, handler, headers, body, stdout,
          outOpened, out, hi, li, pc>>

Init ==
    /\ files \in SeqsUpTo(Disk, MaxFiles)
                 \cup { <<x>> : x \in CaseFiles \cup ByteFiles }
    /\ i = 0
    /\ f = NoPath
    /\ extension = <<>>
    /\ handler = <<>>
    /\ headers = <<>>
    /\ body = <<>>
    /\ stdout = <<>>
    /\ outOpened = FALSE
    /\ out = <<>>
    /\ hi = 0
    /\ li = 0
    /\ pc = "for"

\* AddHeader without the membership test
AddHeaderAlways(hs, handler_name, text) == Append(hs, <<handler_name, text>>)

\* AddHeader that moves the header of a handler seen again to the end
AddHeaderLastSeen(hs, handler_name, text) ==
    LET others == [k \in 1..Len(hs) |-> IF hs[k][1] = handler_name THEN <<>> ELSE hs[k]]
        IsEntry(e) == e # <<>>
    IN  Append(SelectSeq(others, IsEntry), <<handler_name, text>>)

\* lines 83-84: the header of a handler is stored under its name, once
AddHeader(hs, handler_name, text) ==
    IF handler_name \notin { hs[k][1] : k \in 1..Len(hs) }
    THEN Append(hs, <<handler_name, text>>)
    ELSE hs

\* line 85: the heading that names the file
Heading(path) == <<"<h1> ">> \o PathStr(path) \o <<" </h1>">>

\* AppendFragment that puts the fragment and the separator first
AppendFragmentFirst(lines, fragment) == <<fragment, <<"<hr>">> >> \o lines

\* lines 86-87: the fragment and the separator follow the heading
AppendFragment(lines, fragment) == lines \o <<fragment, <<"<hr>">> >>

\* RaisePc with the error caught and the file skipped
RaisePcSwallowed == "for"

\* where main is after open(path, "rb") raises: nothing catches the error
RaisePc == "error"

\* Footer without the trailing separator
FooterNoSeparator(now) == << <<"Generated at ", now>>, <<"</body></html>">> >>

\* lines 96-98: the trailing separator, the timestamp and the end of the document
Footer(now) == << <<"<hr>">>, <<"Generated at ", now>>, <<"</body></html>">> >>

\* line 76: the for loop takes the next file, or ends
ForNext ==
    /\ pc = "for"
    /\ IF i < Len(files)
       THEN /\ i' = i + 1
            /\ f' = files[i + 1]
            /\ pc' = "lookup"
       ELSE /\ pc' = "open"
            /\ UNCHANGED <<i, f>>
    /\ UNCHANGED <<files, extension, handler, headers, body, stdout,
                   outOpened, out, hi, li>>

\* Diagnostic printing the suffix as it is spelled
DiagnosticRawSuffix(path, ext) ==
    <<"No handler for ">> \o PathStr(path) \o <<" with extension ">> \o path.suffix

\* the line printed for a file without a handler
Diagnostic(path, ext) ==
    <<"No handler for ">> \o PathStr(path) \o <<" with extension ">> \o ext

\* lines 77-80: the extension, and the skip of a file without a handler
CheckExtension ==
    /\ pc = "lookup"
    /\ extension' = ExtensionOf(f)
    /\ IF ~InRegistry(extension')
       THEN /\ stdout' = Append(stdout, Diagnostic(f, extension'))
            /\ pc' = "for"
       ELSE /\ pc' = "dispatch"
            /\ UNCHANGED stdout
    /\ UNCHANGED <<files, i, f, handler, headers, body, outOpened, out, hi, li>>

\* lines 81-85: the handler, its header if it is new, and the heading
Dispatch ==
    /\ pc = "dispatch"
    /\ handler' = Lookup(extension)
    /\ LET handler_name == RegisteredName(handler')
       IN  headers' = AddHeader(headers, handler_name, Header(handler'))
    /\ body' = Append(body, Heading(f))
    /\ pc' = "htmlify"
    /\ UNCHANGED <<files, i, f, extension, stdout, outOpened, out, hi, li>>

\* lines 86-87: the fragment; open(path, "rb") raises for a missing file
Render ==
    /\ pc = "htmlify"
    /\ IF f.readable
       THEN /\ body' = AppendFragment(body, Htmlify(handler, f))
            /\ pc' = "for"
       ELSE /\ pc' = RaisePc
            /\ UNCHANGED body
    /\ UNCHANGED <<files, i, f, extension, handler, headers, stdout,
                   outOpened, out, hi, li>>

\* line 89: open(outfile, "w")
OpenOut ==
    /\ pc = "open"
    /\ outOpened' = TRUE
    /\ out' = <<>>
    /\ pc' = "head"
    /\ UNCHANGED <<files, i, f, extension, handler, headers, body, stdout, hi, li>>

\* line 90
WriteHeadOpen ==
    /\ pc = "head"
    /\ out' = Append(out, <<"<html><head>">>)
    /\ hi' = 0
    /\ pc' = "headers"
    /\ UNCHANGED <<files, i, f, extension, handler, headers, body, stdout,
                   outOpened, li>>

\* lines 91-92
WriteHeader ==
    /\ pc = "headers"
    /\ hi < Len(headers)
    /\ out' = Append(out, headers[hi + 1][2])
    /\ hi' = hi + 1
    /\ UNCHANGED <<files, i, f, extension, handler, headers, body, stdout,
                   outOpened, li, pc>>

\* line 93
WriteBodyOpen ==
    /\ pc = "headers"
    /\ hi = Len(headers)
    /\ out' = Append(out, <<"</head><body>">>)
    /\ li' = 0
    /\ pc' = "lines"
    /\ UNCHANGED <<files, i, f, extension, handler, headers, body, stdout,
                   outOpened, hi>>

\* lines 94-95
WriteLine ==
    /\ pc = "lines"
    /\ li < Len(body)
    /\ out' = Append(out, body[li + 1] \o <<"\n">>)
    /\ li' = li + 1
    /\ UNCHANGED <<files, i, f, extension, handler, headers, body, stdout,
                   outOpened, hi, pc>>

\* lines 96-98, and the end of the with block
WriteFooter ==
    /\ pc = "lines"
    /\ li = Len(body)
    /\ \E now \in Timestamps :
        out' = out \o Footer(now)
    /\ pc' = "done"
    /\ UNCHANGED <<files, i, f, extension, handler, headers, body, stdout,
                   outOpened, hi, li>>

Next ==
    \/ ForNext
    \/ CheckExtension
    \/ Dispatch
    \/ Render
    \/ OpenOut
    \/ WriteHeadOpen
    \/ WriteHeader
    \/ WriteBodyOpen
    \/ WriteLine
    \/ WriteFooter

Spec == Init /\ [][Next]_vars

\* ---------------------------------------------------------------- properties

\* the file's extension is a key of the registry
Supported(path) == InRegistry(ExtensionOf(path))

\* the class the file's extension resolves to
ClassOf(path) == Lookup(ExtensionOf(path))

\* the files with a handler, in input order
SupportedFiles(fs) == SelectSeq(fs, Supported)

\* the suffix is a dot and an upper, lower or mixed case spelling of an alias
SpelledFrom(path, aliases) ==
    \E a \in aliases : path.suffix \in { Dotted(s) : s \in Spellings(a) }

\* t holds pre from position at on
HasAt(t, at, pre) ==
    /\ Len(t) >= at - 1 + Len(pre)
    /\ SubSeq(t, at, at - 1 + Len(pre)) = pre

Count(seq, x) == Cardinality({ k \in 1..Len(seq) : seq[k] = x })

\* the position in the written document of the write that ends the head
BodyOpenAt(o) == CHOOSE k \in 1..Len(o) : o[k] = <<"</head><body>">>

\* the writes between <html><head> and </head><body>
HeadSection(o) == SubSeq(o, 2, BodyOpenAt(o) - 1)

\* the writes after </head><body>
BodySection(o) == SubSeq(o, BodyOpenAt(o) + 1, Len(o))

RECURSIVE ExpectedBody(_)
\* heading, fragment and separator of every file with a handler, in input order
ExpectedBody(fs) ==
    IF fs = <<>> THEN <<>>
    ELSE (IF Supported(fs[1])
          THEN << <<"<h1> ", fs[1].stem>> \o fs[1].suffix \o <<" </h1>">>,
                  Htmlify(ClassOf(fs[1]), fs[1]),
                  <<"<hr>">> >>
          ELSE <<>>) \o ExpectedBody(Tail(fs))

\* every string of b with the newline main writes after it
Lines(b) == [k \in 1..Len(b) |-> b[k] \o <<"\n">>]

RECURSIVE ExpectedStdout(_)
\* one line per file without a handler, in input order
ExpectedStdout(fs) ==
    IF fs = <<>> THEN <<>>
    ELSE (IF Supported(fs[1])
          THEN <<>>
          ELSE << <<"No handler for ", fs[1].stem>> \o fs[1].suffix
                    \o <<" with extension ">> \o ExtensionOf(fs[1]) >>)
         \o ExpectedStdout(Tail(fs))

RECURSIVE FirstSeen(_, _)
\* the classes files are dispatched to, each once, in the order of first use
FirstSeen(fs, seen) ==
    IF fs = <<>> THEN <<>>
    ELSE IF Supported(fs[1]) /\ ClassOf(fs[1]) \notin seen
         THEN <<ClassOf(fs[1])>> \o FirstSeen(Tail(fs), seen \cup {ClassOf(fs[1])})
         ELSE FirstSeen(Tail(fs), seen)

\* the files whose extension check is over
Checked == SubSeq(files, 1, IF pc = "lookup" THEN i - 1 ELSE i)

\* a file with a handler that cannot be read
BadAt(k) == Supported(files[k]) /\ ~files[k].readable

HasBad == \E k \in 1..Len(files) : BadAt(k)

FirstBad == CHOOSE k \in 1..Len(files) : BadAt(k) /\ \A j \in 1..(k - 1) : ~BadAt(j)

B64Value(c) == (CHOOSE n \in 1..Len(B64Alphabet) : B64Alphabet[n] = c) - 1

RECURSIVE B64Decode(_)
\* base64 decoding of padded text
B64Decode(cs) ==
    IF Len(cs) < 4 THEN <<>>
    ELSE LET v1 == B64Value(cs[1])
             v2 == B64Value(cs[2])
         IN  IF cs[3] = "=" THEN <<v1 * 4 + v2 \div 16>>
             ELSE IF cs[4] = "="
                  THEN <<v1 * 4 + v2 \div 16,
                         (v2 % 16) * 16 + B64Value(cs[3]) \div 4>>
                  ELSE <<v1 * 4 + v2 \div 16,
                         (v2 % 16) * 16 + B64Value(cs[3]) \div 4,
                         (B64Value(cs[3]) % 4) * 64 + B64Value(cs[4])>>
                       \o B64Decode(SubSeq(cs, 5, Len(cs)))

\* the text of a fragment between ";base64," and the closing quote
EmbeddedData(frag) ==
    LET start == CHOOSE k \in 1..Len(frag) : frag[k] = ";base64,"
        stop  == CHOOSE k \in (start + 1)..Len(frag) :
                    /\ frag[k] \in {"'/>", "'>"}
                    /\ \A j \in (start + 1)..(k - 1) : frag[j] \notin {"'/>", "'>"}
    IN  SubSeq(frag, start + 1, stop - 1)

\* C1: in the document written, the header of every handler that at least
\* one input file is dispatched to is written exactly once, in the head,
\* however many files use the handler and whatever lies between them; no
\* header is ever written twice.
C1_HeaderWrittenOnce ==
    \A c \in Classes :
        /\ Count(out, Header(c)) <= 1
        /\ (/\ pc \in {"lines", "done"}
            /\ \E k \in 1..Len(files) : Supported(files[k]) /\ ClassOf(files[k]) = c)
                => /\ Count(out, Header(c)) = 1
                   /\ Count(HeadSection(out), Header(c)) = 1

\* C1 witness: a finished run with two model files around a file of another kind
C1_Witness ==
    /\ pc = "done"
    /\ Len(files) = 3
    /\ Supported(files[1]) /\ ClassOf(files[1]) = GLBClass
    /\ ~Supported(files[2])
    /\ Supported(files[3]) /\ ClassOf(files[3]) = GLBClass
    /\ Count(out, GLBHeaderText) = 1

\* C2 as stated: a file without a handler prints its one line, and once a
\* file has been skipped this way the run of every input list completes.
C2_UnsupportedRunCompletes ==
    /\ stdout = ExpectedStdout(Checked)
    /\ Len(stdout) >= 1 => pc # "error" /\ (pc = "done" \/ ENABLED Next)

\* C2, amended: a file without a handler raises no error, adds no header and
\* no body string, prints exactly one line naming the file and its extension,
\* and the loop goes on; when every file with a handler can be read the run
\* completes, and the document holds the fragment of every file with a handler.
C2_UnsupportedSkipped ==
    /\ stdout = ExpectedStdout(Checked)
    /\ pc = "error" => Supported(f)
    /\ pc = "for" =>
        /\ body = ExpectedBody(SubSeq(files, 1, i))
        /\ Len(headers) = Len(FirstSeen(SubSeq(files, 1, i), {}))
    /\ ~HasBad => pc # "error" /\ (pc = "done" \/ ENABLED Next)
    /\ pc = "done" =>
        \A k \in 1..Len(files) :
            Supported(files[k]) =>
                Count(out, Htmlify(ClassOf(files[k]), files[k]) \o <<"\n">>) >= 1

\* C2 witness: a finished run whose second file has no handler, between two that have
C2_Witness ==
    /\ pc = "done"
    /\ Len(files) = 3
    /\ Supported(files[1]) /\ ~Supported(files[2]) /\ Supported(files[3])
    /\ Len(stdout) = 1
    /\ Len(body) = 6

\* C3: when a listed file with a handler cannot be read, the run ends in the
\* error raised at the first such file, and the output file is never opened
\* and never written, wherever the file is in the list.
C3_IOFailureFatal ==
    /\ pc = "error" => HasBad
    /\ HasBad =>
        /\ ~outOpened
        /\ out = <<>>
        /\ pc \in {"for", "lookup", "dispatch", "htmlify", "error"}
        /\ i <= FirstBad
        /\ pc = "for" => i < FirstBad
        /\ pc = "error" => i = FirstBad /\ f = files[FirstBad]
        /\ pc = "error" \/ ENABLED Next

\* C3 witness: the error at the third file, after two files were rendered
C3_Witness ==
    /\ pc = "error"
    /\ i = 3
    /\ Len(body) = 7
    /\ ~outOpened

\* C4: in a finished run the writes after </head><body> are, in input order,
\* heading, fragment and separator of every input file with a handler, each
\* once, then one <hr>, one timestamp line and the end of the document.
C4_BodyInInputOrder ==
    pc = "done" =>
        \E now \in Timestamps :
            BodySection(out) =
                Lines(ExpectedBody(files))
                    \o << <<"<hr>">>, <<"Generated at ", now>>, <<"</body></html>">> >>

\* C4 witness: a finished run of three files with a handler, two of them different
C4_Witness ==
    /\ pc = "done"
    /\ Len(files) = 3
    /\ \A k \in 1..3 : Supported(files[k])
    /\ files[1] # files[2]
    /\ Len(BodySection(out)) = 12

\* C5: a file whose suffix spells an alias of a handler in upper, lower or
\* mixed case is dispatched to that handler and is never reported as a file
\* without a handler.
C5_CaseInsensitiveLookup ==
    \A c \in Classes :
        /\ (pc = "htmlify" /\ SpelledFrom(f, AliasesOf(c))) => handler = c
        /\ \A k \in 1..Len(files) :
            SpelledFrom(files[k], AliasesOf(c)) =>
                /\ \A n \in 1..Len(stdout) :
                    ~HasAt(stdout[n], 1, <<"No handler for ">> \o PathStr(files[k]))
                /\ (k <= Len(Checked) /\ pc \in {"dispatch", "htmlify"} /\ k = i)
                    => extension \in AliasesOf(c)

\* C5 witness: a file spelled .PnG reaches the call of ImageHandler.htmlify
C5_Witness ==
    /\ pc = "htmlify"
    /\ f.suffix = <<".","P","n","G">>
    /\ handler = ImageClass
    /\ stdout = <<>>

\* C6: only png, jpg, jpeg and gif reach the Image handler and only glb and
\* gltf reach the Model handler; every other extension, the handlers' own
\* registered names included, is treated as a file without a handler.
C6_RegistryIsExactlyTheAliases ==
    /\ pc \in {"dispatch", "htmlify"} => extension \in ImageAliases \cup GLBAliases
    /\ pc = "htmlify" =>
        /\ handler = ImageClass <=> extension \in ImageAliases
        /\ handler = GLBClass <=> extension \in GLBAliases

\* C7: the tag in the data URI depends on the lower-case extension alone:
\* data:image/<ext> with the alias itself for an image, data:model/gltf-binary
\* for glb and data:model/gltf-text for gltf, whatever the file holds.
C7_TagFromExtension ==
    \A j \in 1..(Len(body) \div 3) :
        LET p == SupportedFiles(files)[j]
            frag == body[3 * j - 1]
        IN  /\ ClassOf(p) = ImageClass =>
                    HasAt(frag, 1, <<"<img src = 'data:image/">> \o ExtensionOf(p)
                                       \o <<";base64,">>)
            /\ ClassOf(p) = GLBClass =>
                    frag[3] = (IF ExtensionOf(p) = <<"g","l","b">>
                               THEN "gltf-binary" ELSE "gltf-text")
            /\ \A a \in ImageAliases :
                SpelledFrom(p, {a}) =>
                    HasAt(frag, 1, <<"<img src = 'data:image/">> \o a \o <<";base64,">>)
            /\ SpelledFrom(p, {<<"g","l","b">>}) =>
                    HasAt(frag, 2, <<"<model-viewer camera-controls src='data:model/",
                                     "gltf-binary", ";base64,">>)
            /\ SpelledFrom(p, {<<"g","l","t","f">>}) =>
                    HasAt(frag, 2, <<"<model-viewer camera-controls src='data:model/",
                                     "gltf-text", ";base64,">>)

\* C7 witness: rendered files spelled .GLb and .JpEG
C7_Witness ==
    /\ Len(body) = 3
    /\ files[1].suffix = <<".","G","L","b">>
    /\ body[2][3] = "gltf-binary"

\* C8: decoding the base64 text embedded in a file's fragment gives the
\* file's bytes, for the Image and for the Model handler, in the body list
\* and in the document written.
C8_Base64RoundTrip ==
    /\ \A j \in 1..(Len(body) \div 3) :
        B64Decode(EmbeddedData(body[3 * j - 1])) = SupportedFiles(files)[j].bytes
    /\ pc = "done" =>
        \A j \in 1..Len(SupportedFiles(files)) :
            B64Decode(EmbeddedData(BodySection(out)[3 * j - 1]))
                = SupportedFiles(files)[j].bytes

\* C8 witness: a finished run over a model file of two bytes, the second 255
C8_Witness ==
    /\ pc = "done"
    /\ Len(files) = 1
    /\ Supported(files[1]) /\ ClassOf(files[1]) = GLBClass
    /\ Len(files[1].bytes) = 2
    /\ files[1].bytes[2] = 255

\* C9: when the input list is empty, or no listed file has a handler, the run
\* completes and the document is <html><head>, </head><body>, one <hr>, one
\* timestamp line and the end of the document: no header, no body string.
C9_EmptyInput ==
    (\A k \in 1..Len(files) : ~Supported(files[k])) =>
        /\ pc # "error"
        /\ pc = "done" \/ ENABLED Next
        /\ pc = "done" =>
            \E now \in Timestamps :
                out = << <<"<html><head>">>, <<"</head><body>">>, <<"<hr>">>,
                         <<"Generated at ", now>>, <<"</body></html>">> >>

\* C9 witness: the finished run of the empty list
C9_Witness ==
    /\ pc = "done"
    /\ files = <<>>
    /\ Len(out) = 5

\* C10: the headers written are those of the handlers some input file is
\* dispatched to, one each, in the order of each handler's first file; the
\* dict holds them in that order after every file.
C10_HeadersFirstSeenOrder ==
    /\ pc = "for" =>
        [k \in 1..Len(headers) |-> headers[k][1]]
            = [k \in 1..Len(FirstSeen(SubSeq(files, 1, i), {})) |->
                    RegisteredName(FirstSeen(SubSeq(files, 1, i), {})[k])]
    /\ pc = "done" =>
        HeadSection(out)
            = [k \in 1..Len(FirstSeen(files, {})) |-> Header(FirstSeen(files, {})[k])]

\* C10 witness: model, image, model: the model header is written before the image's
C10_Witness ==
    /\ pc = "done"
    /\ Len(files) = 3
    /\ Supported(files[1]) /\ ClassOf(files[1]) = GLBClass
    /\ Supported(files[2]) /\ ClassOf(files[2]) = ImageClass
    /\ Supported(files[3]) /\ ClassOf(files[3]) = GLBClass
    /\ HeadSection(out) = <<GLBHeaderText, <<>> >>

====
